---------------------------- MODULE Spec2Model ----------------------------
(***************************************************************************)
(* Batch restoration pipeline of old-photo-restore: App.tsx (processPhoto, *)
(* processAll, removePhoto, updateAdjustment, onDrop) and services/gemini  *)
(* (restoreImage).                                                         *)
(*                                                                         *)
(* A message (the text of an Error, or a text fragment returned by the     *)
(* remote model) is a sequence of tokens; String.prototype.includes(s) is  *)
(* the presence of token s in that sequence.  The absent value (undefined, *)
(* or the empty string) is the empty sequence.                             *)
(***************************************************************************)
EXTENDS Integers, Sequences, FiniteSets, TLC

VARIABLES
    photos,           \* useState<PhotoItem[]>: the collection, in order
    calls,            \* the processPhoto invocations that can still act, oldest first
    started,          \* number of processPhoto invocations that passed the guard so far
    unhandled,        \* whether some promise rejection found no handler so far
    batch,            \* the processAll run: its closure (snapshot, mode) and position
    isProcessingAll,  \* useState(false)
    hasApiKey,        \* useState<boolean | null>(null)
    restorationMode,  \* useState<RestorationMode>('standard')
    env,              \* process.env.API_KEY, process.env.GEMINI_API_KEY
    nextId,           \* the next fresh photo id
    revoked           \* revoked[id]: URL.revokeObjectURL calls on the preview of id

vars == <<photos, calls, started, unhandled, batch, isProcessingAll, hasApiKey,
          restorationMode, env, nextId, revoked>>

-----------------------------------------------------------------------------
(* Bounds of the model.                                                    *)

MaxPhotos == 2

MaxCalls == 2

MaxBatches == 2

\* SpecRestore
RestorePhotos == 1

RestoreCalls == 1

\* SpecMode
ModePhotos == 2

ModeCalls == 2

\* SpecAdjust
AdjustPhotos == 1

\* SpecPanel
PanelPhotos == 2

PanelCalls == 1

\* SpecLive
LivePhotos == 2

LiveCalls == 2

LiveBatches == 1

-----------------------------------------------------------------------------
(* Messages.                                                               *)

Absent == <<>>

Includes(msg, s) == \E i \in DOMAIN msg : msg[i] = s

\* "API Key not found. Please ensure GEMINI_API_KEY is set or select a key."
MsgNoKey == <<"API Key not found. Please ensure GEMINI_API_KEY is set or select a key.">>

\* gemini: "Gemini returned no candidate ..." (text in Chinese, none of the signals)
MsgNoCandidate == <<"MSG_NO_CANDIDATE">>

\* gemini: "generation stopped, reason: ${finishReason}. ..."
MsgStopped(reason) == <<"MSG_STOPPED_REASON", reason>>

\* gemini: "the response has no content parts"
MsgNoParts == <<"MSG_NO_PARTS">>

\* gemini: "the model returned text instead of an image: ${text}"
MsgModelText(text) == <<"MSG_MODEL_RETURNED_TEXT">> \o text

\* gemini: "Gemini returned no valid image data"
MsgNoImage == <<"MSG_NO_IMAGE_DATA">>

\* gemini: "network connection failed, check your network settings or API key"
MsgNetworkOrKey == <<"MSG_NETWORK_OR_KEY">>

\* gemini: "this photo cannot be processed because of the safety policy"
MsgSafetyPolicy == <<"MSG_SAFETY_POLICY">>

\* App: "request timed out, please retry"
MsgTimeout == <<"MSG_TIMEOUT">>

\* App: "restoration failed, please retry"
MsgDefault == <<"MSG_DEFAULT">>

\* App: "API key invalid, please select again"
MsgKeyInvalid == <<"MSG_KEY_INVALID">>

\* App: "API quota exhausted ..."
MsgQuota == <<"MSG_QUOTA">>

\* App: "network connection failed, check your network settings"
MsgNetwork == <<"MSG_NETWORK">>

-----------------------------------------------------------------------------
(* The remote API: what one generateContent call can settle with.          *)

ImagePart(mime, data) == [inlineData |-> TRUE, mimeType |-> mime, data |-> data, text |-> Absent]

TextPart(text) == [inlineData |-> FALSE, mimeType |-> "", data |-> "", text |-> text]

Response(hasCandidate, finishReason, parts) ==
    [threw |-> FALSE, message |-> Absent, hasCandidate |-> hasCandidate,
     finishReason |-> finishReason, parts |-> parts]

Thrown(message) ==
    [threw |-> TRUE, message |-> message, hasCandidate |-> FALSE,
     finishReason |-> "", parts |-> <<>>]

\* Text fragments the remote model may return.
RemoteTexts ==
    { <<"sorry">>, <<"photo", "429">>, <<"Safety">>, <<"fetch failed">>,
      <<"Requested entity was not found">>, <<"quota">>, <<"RESOURCE_EXHAUSTED">> }

\* Messages of the errors the SDK call may throw (Absent: an error without message).
TransportMessages ==
    { Absent, <<"fetch failed">>, <<"blocked", "Safety">>, <<"429", "quota">>,
      <<"RESOURCE_EXHAUSTED">>, <<"Requested entity was not found">>, <<"internal">>,
      <<"fetch failed", "quota">>, <<"Safety", "Requested entity was not found">>,
      <<"Requested entity was not found", "429">> }

RemoteOutcomes ==
    { Response(FALSE, "", <<>>),
      Response(TRUE, "SAFETY", <<ImagePart("image/png", "AAAA")>>),
      Response(TRUE, "STOP", <<>>),
      Response(TRUE, "STOP", <<ImagePart("image/png", "AAAA")>>),
      Response(TRUE, "", <<ImagePart("image/jpeg", "BBBB")>>),
      Response(TRUE, "STOP", <<TextPart(<<"sorry">>), ImagePart("image/png", "CCCC")>>),
      Response(TRUE, "STOP", <<TextPart(Absent)>>) }
    \cup { Response(TRUE, "STOP", <<TextPart(t)>>) : t \in RemoteTexts }
    \cup { Thrown(m) : m \in TransportMessages }

-----------------------------------------------------------------------------
(* services/gemini: restoreImage.                                          *)

Ok(value) == [ok |-> TRUE, value |-> value]

Fail(message) == [ok |-> FALSE, value |-> message]

\* Mutant of ApiKey: the platform key is preferred to the key the user selected.
ApiKeyPlatformFirst(e) == IF e.GEMINI_API_KEY # "" THEN e.GEMINI_API_KEY ELSE e.API_KEY

\* const apiKey = process.env.API_KEY || process.env.GEMINI_API_KEY
ApiKey(e) == IF e.API_KEY # "" THEN e.API_KEY ELSE e.GEMINI_API_KEY

\* `data:${part.inlineData.mimeType};base64,${part.inlineData.data}`
DataUrl(part) == <<"data:", part.mimeType, ";base64,", part.data>>

IsImagePart(part) == part.inlineData

HasText(part) == part.text # Absent

Least(S) == IF S = {} THEN 0 ELSE CHOOSE i \in S : \A j \in S : i <= j

\* for (const part of parts) if (part.inlineData) return ...
FirstImageIndex(parts) == Least({ i \in DOMAIN parts : IsImagePart(parts[i]) })

\* parts.find(p => p.text)
FirstTextIndex(parts) == Least({ i \in DOMAIN parts : HasText(parts[i]) })

\* The body of the try block once the response has arrived.
ParseResponse(r) ==
    IF ~r.hasCandidate THEN Fail(MsgNoCandidate)
    ELSE IF r.finishReason # "" /\ r.finishReason # "STOP" THEN Fail(MsgStopped(r.finishReason))
    ELSE IF Len(r.parts) = 0 THEN Fail(MsgNoParts)
    ELSE IF FirstImageIndex(r.parts) # 0
         THEN Ok(DataUrl(r.parts[FirstImageIndex(r.parts)]))
    ELSE IF FirstTextIndex(r.parts) # 0
         THEN Fail(MsgModelText(r.parts[FirstTextIndex(r.parts)].text))
    ELSE Fail(MsgNoImage)

\* Mutant of RestoreCatch: the catch block does not look for "Safety".
RestoreCatchNoSafety(message) ==
    IF Includes(message, "fetch failed") THEN MsgNetworkOrKey
    ELSE message

\* The catch block: it also receives the errors thrown by the try block itself.
RestoreCatch(message) ==
    IF Includes(message, "fetch failed") THEN MsgNetworkOrKey
    ELSE IF Includes(message, "Safety") THEN MsgSafetyPolicy
    ELSE message

\* What the promise of restoreImage settles with when the remote call settles with o.
RestoreImage(o) ==
    IF o.threw THEN Fail(RestoreCatch(o.message))
    ELSE IF ParseResponse(o).ok THEN ParseResponse(o)
    ELSE Fail(RestoreCatch(ParseResponse(o).value))

-----------------------------------------------------------------------------
(* App.tsx: the collection and its updaters.                               *)

DefaultAdjustments == [brightness |-> 100, contrast |-> 100, saturation |-> 100, sharpness |-> 0]

\* onDrop: one new PhotoItem; result and error are not set
NewPhoto(id) ==
    [id |-> id, status |-> "pending", result |-> Absent, error |-> Absent,
     adjustments |-> DefaultAdjustments]

\* Mutant of SetProcessing: the update is not restricted to the photo with the id.
SetProcessingAll(ph, id) ==
    [i \in DOMAIN ph |-> [ph[i] EXCEPT !.status = "processing"]]

\* prev.map(p => p.id === id ? { ...p, status: 'processing' } : p)
SetProcessing(ph, id) ==
    [i \in DOMAIN ph |-> IF ph[i].id = id THEN [ph[i] EXCEPT !.status = "processing"] ELSE ph[i]]

\* prev.map(p => p.id === id ? { ...p, status: 'completed', result } : p)
SetCompleted(ph, id, result) ==
    [i \in DOMAIN ph |->
        IF ph[i].id = id THEN [ph[i] EXCEPT !.status = "completed", !.result = result] ELSE ph[i]]

\* Mutant of SetError: a photo that is not found is put back at the end.
SetErrorPutsBack(ph, id, message) ==
    IF \E i \in DOMAIN ph : ph[i].id = id
    THEN [i \in DOMAIN ph |->
            IF ph[i].id = id THEN [ph[i] EXCEPT !.status = "error", !.error = message]
            ELSE ph[i]]
    ELSE Append(ph, [id |-> id, status |-> "error", result |-> Absent, error |-> message,
                     adjustments |-> DefaultAdjustments])

\* prev.map(p => p.id === id ? { ...p, status: 'error', error: errorMessage } : p)
SetError(ph, id, message) ==
    [i \in DOMAIN ph |->
        IF ph[i].id = id THEN [ph[i] EXCEPT !.status = "error", !.error = message] ELSE ph[i]]

\* Mutant of SetAdjustment: the other adjustments are not copied, they get their
\* default values.
SetAdjustmentResetsOthers(ph, id, key, value) ==
    [i \in DOMAIN ph |->
        IF ph[i].id = id
        THEN [ph[i] EXCEPT !.adjustments = [DefaultAdjustments EXCEPT ![key] = value]]
        ELSE ph[i]]

\* prev.map(p => p.id === id ? { ...p, adjustments: { ...p.adjustments, [key]: value } } : p)
SetAdjustment(ph, id, key, value) ==
    [i \in DOMAIN ph |->
        IF ph[i].id = id THEN [ph[i] EXCEPT !.adjustments[key] = value] ELSE ph[i]]

RECURSIVE Filter(_, _)
\* Array.prototype.filter, by a set of kept indices
Filter(seq, keep) ==
    IF seq = <<>> THEN <<>>
    ELSE LET rest == Filter(Tail(seq), { i - 1 : i \in keep \ {1} })
         IN  IF 1 \in keep THEN <<Head(seq)>> \o rest ELSE rest

\* Mutant of Eligible: the filter keeps the pending photos only.
EligiblePendingOnly(ph) == Filter(ph, { i \in DOMAIN ph : ph[i].status = "pending" })

\* photos.filter(p => p.status === 'pending' || p.status === 'error')
Eligible(ph) == Filter(ph, { i \in DOMAIN ph : ph[i].status \in {"pending", "error"} })

\* What processPhoto reads of the photo object it is given.
Captured(p) == [id |-> p.id, status |-> p.status]

\* The photo objects a closure holds, as far as processPhoto reads them.
Snapshot(ph) == [i \in DOMAIN ph |-> Captured(ph[i])]

\* prev.filter(p => p.id === id ? false : true)
Without(ph, id) == Filter(ph, { i \in DOMAIN ph : ph[i].id # id })

Ids(ph) == { ph[i].id : i \in DOMAIN ph }

PhotoOf(ph, id) == ph[CHOOSE i \in DOMAIN ph : ph[i].id = id]

-----------------------------------------------------------------------------
(* App.tsx: processPhoto.                                                  *)

\* The guard on the photo object the caller passed (the object of the render that
\* created the caller's closure).
Guarded(p) == p.status = "processing" \/ p.status = "completed"

\* The state of one invocation after its synchronous prefix: timeoutPromise is
\* created (timer pending, no handler attached yet) and fileToBase64 is awaited;
\* key is the apiKey the request is made with, once restoreImage has made it.
NewCall(p, run, mode) ==
    [id |-> p.id, run |-> run, mode |-> mode, pc |-> "encoding",
     remote |-> "none", key |-> "", timer |-> "pending", raced |-> FALSE]

\* processPhoto(p) up to its first await, on collection ph and invocations cl.
Start(ph, cl, p, run, mode) ==
    IF Guarded(p) THEN [photos |-> ph, calls |-> cl, started |-> FALSE]
    ELSE [photos |-> SetProcessing(ph, p.id), calls |-> Append(cl, NewCall(p, run, mode)),
          started |-> TRUE]

\* The catch block: the stored message and whether setHasApiKey(false) is called.
Classify(message) ==
    IF Includes(message, "Requested entity was not found")
        THEN [message |-> MsgKeyInvalid, keyLost |-> TRUE]
    ELSE IF Includes(message, "quota") \/ Includes(message, "429")
            \/ Includes(message, "RESOURCE_EXHAUSTED")
        THEN [message |-> MsgQuota, keyLost |-> FALSE]
    ELSE IF Includes(message, "fetch failed")
        THEN [message |-> MsgNetwork, keyLost |-> FALSE]
    ELSE [message |-> IF message = Absent THEN MsgDefault ELSE message, keyLost |-> FALSE]

\* The collection after the invocation on photo id ended with settlement s of the race.
Settle(ph, id, s) ==
    IF s.ok THEN SetCompleted(ph, id, s.value)
    ELSE SetError(ph, id, Classify(s.value).message)

\* hasApiKey after the invocation ended with settlement s: "false" after
\* setHasApiKey(false); hasApiKey is one of "null", "true", "false".
KeyAfter(hk, s) == IF ~s.ok /\ Classify(s.value).keyLost THEN "false" ELSE hk

-----------------------------------------------------------------------------
(* App.tsx: processAll.                                                    *)

RECURSIVE Loop(_, _, _, _, _, _)

\* Mutant of Loop: processPhoto(photo) is not awaited, every item is started at once.
LoopNotAwaited(ph, cl, snap, i, run, mode) ==
    IF i > Len(snap) THEN [photos |-> ph, calls |-> cl, idx |-> i, over |-> TRUE]
    ELSE LET s == Start(ph, cl, snap[i], run, mode)
             rest == Loop(s.photos, s.calls, snap, i + 1, run, mode)
         IN  [photos |-> rest.photos, calls |-> rest.calls, idx |-> i, over |-> FALSE]

\* Mutant of Loop: the loop stops one item early.
LoopSkipsLast(ph, cl, snap, i, run, mode) ==
    IF i > Len(snap) \/ (i > 1 /\ i = Len(snap))
    THEN [photos |-> ph, calls |-> cl, idx |-> i, over |-> TRUE]
    ELSE LET s == Start(ph, cl, snap[i], run, mode)
         IN  IF s.started THEN [photos |-> s.photos, calls |-> s.calls, idx |-> i, over |-> FALSE]
             ELSE Loop(ph, cl, snap, i + 1, run, mode)

\* for (const photo of pendingPhotos) await processPhoto(photo), from index i:
\* runs to the first invocation that suspends, or to the end of the list.
Loop(ph, cl, snap, i, run, mode) ==
    IF i > Len(snap) THEN [photos |-> ph, calls |-> cl, idx |-> i, over |-> TRUE]
    ELSE LET s == Start(ph, cl, snap[i], run, mode)
         IN  IF s.started THEN [photos |-> s.photos, calls |-> s.calls, idx |-> i, over |-> FALSE]
             ELSE Loop(ph, cl, snap, i + 1, run, mode)

-----------------------------------------------------------------------------
(* The state machine.                                                      *)

Modes == {"standard", "ultra"}

\* process.env.API_KEY: absent, or the key the user selected
UserKeys == {"", "user-key"}

\* process.env.GEMINI_API_KEY: absent, or the default key of the platform
PlatformKeys == {"", "platform-key"}

Envs == [API_KEY : UserKeys, GEMINI_API_KEY : PlatformKeys]

\* No processAll is running: run runs were started; of the invocations of the last
\* one, issued sent a request and failed failed to encode the source image.
NoBatch(run, issued, failed) ==
    [run |-> run, snap |-> <<>>, idx |-> 0, mode |-> "standard", issued |-> issued,
     failed |-> failed]

\* The state after the first render; the environment is one of envs.
InitWith(envs) ==
    /\ photos = <<>>
    /\ calls = <<>>
    /\ started = 0
    /\ unhandled = FALSE
    /\ batch = NoBatch(0, 0, 0)
    /\ isProcessingAll = FALSE
    /\ hasApiKey = "null"
    /\ restorationMode = "standard"
    /\ env \in envs
    /\ nextId = 1
    /\ revoked = <<>>

\* onDrop(acceptedFiles) with n files: setPhotos(prev => [...prev, ...newPhotos])
OnDrop(n) ==
    /\ photos' = photos \o [i \in 1..n |-> NewPhoto(nextId + i - 1)]
    /\ nextId' = nextId + n
    /\ revoked' = revoked \o [i \in 1..n |-> 0]
    /\ UNCHANGED <<calls, started, unhandled, batch, isProcessingAll, hasApiKey,
                   restorationMode, env>>

\* An invocation that returned can still act in two ways: its abandoned remote call
\* settles, or its timer fires on a timeoutPromise that was never raced.
CanStillAct(c) == c.remote = "inflight" \/ (~c.raced /\ c.timer = "pending")

Drop(cl, k) == Filter(cl, DOMAIN cl \ {k})

\* The invocations left when invocation k returns.
Returned(cl, k) == IF CanStillAct(cl[k]) THEN [cl EXCEPT ![k].pc = "done"] ELSE Drop(cl, k)

\* The run's count of requests sent, after invocation c sent one.
Issued(b, c) == IF c.run = 0 THEN b ELSE [b EXCEPT !.issued = @ + 1]

\* The run's count of failed encodings, after the encoding of invocation c failed.
EncodingFailed(b, c) == IF c.run = 0 THEN b ELSE [b EXCEPT !.failed = @ + 1]

\* The end of invocation k of processPhoto: the collection and the flag it leaves,
\* and, when processAll awaits it, the continuation of the loop of processAll
\* (the next processPhoto up to its first await, or setIsProcessingAll(false)).
Finish(k, ph, cl, hk, b) ==
    LET next == Loop(ph, Returned(cl, k), b.snap, b.idx + 1, b.run, b.mode)
    IN  /\ hasApiKey' = hk
        /\ IF calls[k].run = 0
           THEN /\ photos' = ph
                /\ calls' = Returned(cl, k)
                /\ batch' = b
                /\ UNCHANGED <<started, isProcessingAll>>
           ELSE /\ photos' = next.photos
                /\ calls' = next.calls
                /\ started' = IF next.over THEN started ELSE started + 1
                /\ batch' = IF next.over THEN NoBatch(b.run, b.issued, b.failed)
                             ELSE [b EXCEPT !.idx = next.idx]
                /\ isProcessingAll' = ~next.over
        /\ UNCHANGED <<restorationMode, env, nextId, revoked>>

\* A click on the start or retry button of photos[i]: processPhoto(photo), photo being
\* the object of the current render, with the restorationMode of that render.
ProcessPhotoClick(i) ==
    LET s == Start(photos, calls, Captured(photos[i]), 0, restorationMode)
    IN  /\ photos' = s.photos
        /\ calls' = s.calls
        /\ started' = IF s.started THEN started + 1 ELSE started
        /\ UNCHANGED <<unhandled, batch, isProcessingAll, hasApiKey, restorationMode,
                       env, nextId, revoked>>

\* Mutant of ProcessAllClick: the batch button is not disabled while isProcessingAll.
ProcessAllClickReentrant ==
    /\ Len(photos) > 0
    /\ \E i \in DOMAIN photos : photos[i].status # "completed"
    /\ LET snap == Snapshot(Eligible(photos))
           first == Loop(photos, calls, snap, 1, batch.run + 1, restorationMode)
       IN  /\ photos' = first.photos
           /\ calls' = first.calls
           /\ started' = IF first.over THEN started ELSE started + 1
           /\ batch' = IF first.over THEN NoBatch(batch.run + 1, 0, 0)
                        ELSE [run |-> batch.run + 1, snap |-> snap, idx |-> first.idx,
                              mode |-> restorationMode, issued |-> 0, failed |-> 0]
           /\ isProcessingAll' = ~first.over
    /\ UNCHANGED <<unhandled, hasApiKey, restorationMode, env, nextId, revoked>>

\* A click on the batch button (rendered when photos.length > 0, disabled while
\* isProcessingAll or when every photo is completed): processAll up to its first await.
ProcessAllClick ==
    /\ Len(photos) > 0
    /\ ~isProcessingAll
    /\ \E i \in DOMAIN photos : photos[i].status # "completed"
    /\ LET snap == Snapshot(Eligible(photos))
           first == Loop(photos, calls, snap, 1, batch.run + 1, restorationMode)
       IN  /\ photos' = first.photos
           /\ calls' = first.calls
           /\ started' = IF first.over THEN started ELSE started + 1
           /\ batch' = IF first.over THEN NoBatch(batch.run + 1, 0, 0)
                        ELSE [run |-> batch.run + 1, snap |-> snap, idx |-> first.idx,
                              mode |-> restorationMode, issued |-> 0, failed |-> 0]
           /\ isProcessingAll' = ~first.over
    /\ UNCHANGED <<unhandled, hasApiKey, restorationMode, env, nextId, revoked>>

\* Mutant of EncodingFails: fileToBase64 is awaited outside the try block, so its
\* rejection leaves processPhoto (and the loop of processAll) by an exception.
EncodingFailsUncaught(k) ==
    /\ calls[k].pc = "encoding"
    /\ calls' = Returned(calls, k)
    /\ UNCHANGED <<photos, started, unhandled, batch, isProcessingAll, hasApiKey,
                   restorationMode, env, nextId, revoked>>

\* fileToBase64 of invocation k rejects (reader.onerror: an event, which has no
\* message): the catch block runs; timeoutPromise never gets a handler.
EncodingFails(k) ==
    /\ calls[k].pc = "encoding"
    /\ Finish(k, Settle(photos, calls[k].id, Fail(Absent)), calls,
              KeyAfter(hasApiKey, Fail(Absent)), EncodingFailed(batch, calls[k]))
    /\ UNCHANGED unhandled

\* fileToBase64 of invocation k resolves: restoreImage is called and raced against
\* timeoutPromise.  Without a key restoreImage rejects before any request and, being
\* first in the race, decides it.  With a key the request is issued; a timer that has
\* already fired decides the race at once.
EncodingSucceeds(k) ==
    /\ calls[k].pc = "encoding"
    /\ UNCHANGED unhandled
    /\ LET c == calls[k] IN
       IF ApiKey(env) = ""
       THEN Finish(k, Settle(photos, c.id, Fail(MsgNoKey)),
                   [calls EXCEPT ![k].raced = TRUE],
                   KeyAfter(hasApiKey, Fail(MsgNoKey)), batch)
       ELSE IF c.timer = "fired"
       THEN Finish(k, Settle(photos, c.id, Fail(MsgTimeout)),
                   [calls EXCEPT ![k].raced = TRUE, ![k].remote = "inflight",
                                 ![k].key = ApiKey(env)],
                   KeyAfter(hasApiKey, Fail(MsgTimeout)), Issued(batch, c))
       ELSE /\ calls' = [calls EXCEPT ![k].raced = TRUE, ![k].remote = "inflight",
                                      ![k].key = ApiKey(env), ![k].pc = "racing"]
            /\ batch' = Issued(batch, c)
            /\ UNCHANGED <<photos, started, isProcessingAll, hasApiKey, restorationMode,
                           env, nextId, revoked>>

\* The remote call of invocation k settles with outcome o.  While the race is open
\* its settlement decides it; after the timeout decided the race it is discarded.
RemoteSettles(k, o) ==
    /\ calls[k].remote = "inflight"
    /\ UNCHANGED unhandled
    /\ IF calls[k].pc = "racing"
       THEN Finish(k, Settle(photos, calls[k].id, RestoreImage(o)),
                   [calls EXCEPT ![k].remote = "settled"],
                   KeyAfter(hasApiKey, RestoreImage(o)), batch)
       ELSE /\ calls' = Drop(calls, k)
            /\ UNCHANGED <<photos, started, batch, isProcessingAll, hasApiKey,
                           restorationMode, env, nextId, revoked>>

\* Mutant of TimerFires: timeoutPromise is not in the race, its rejection is lost.
TimerFiresOutsideRace(k) ==
    /\ calls[k].timer = "pending"
    /\ \A j \in 1..(k - 1) : calls[j].timer # "pending"
    /\ calls' = [calls EXCEPT ![k].timer = "fired"]
    /\ unhandled' = TRUE
    /\ UNCHANGED <<photos, started, batch, isProcessingAll, hasApiKey,
                   restorationMode, env, nextId, revoked>>

\* The 90 s timer of invocation k fires: timeoutPromise rejects.  While the race is
\* open the rejection decides it; before the race exists, or when it never will, the
\* rejection finds no handler.  (After the race was decided the rejection is consumed
\* by the race and changes nothing: that step is not modelled.)  Every timer runs
\* 90 s from the start of its invocation, so the timers fire in that order.
TimerFires(k) ==
    /\ calls[k].timer = "pending"
    /\ \A j \in 1..(k - 1) : calls[j].timer # "pending"
    /\ \/ /\ calls[k].pc = "racing"
          /\ Finish(k, Settle(photos, calls[k].id, Fail(MsgTimeout)),
                    [calls EXCEPT ![k].timer = "fired"],
                    KeyAfter(hasApiKey, Fail(MsgTimeout)), batch)
          /\ UNCHANGED unhandled
       \/ /\ calls[k].pc = "encoding"
          /\ calls' = [calls EXCEPT ![k].timer = "fired"]
          /\ unhandled' = TRUE
          /\ UNCHANGED <<photos, started, batch, isProcessingAll, hasApiKey,
                         restorationMode, env, nextId, revoked>>
       \/ /\ calls[k].pc = "done" /\ ~calls[k].raced
          /\ calls' = Drop(calls, k)
          /\ unhandled' = TRUE
          /\ UNCHANGED <<photos, started, batch, isProcessingAll, hasApiKey,
                         restorationMode, env, nextId, revoked>>

\* Mutant of RemovePhoto: the preview is revoked whether or not the photo is found.
RemovePhotoRevokesAlways(id) ==
    /\ photos' = Without(photos, id)
    /\ revoked' = [revoked EXCEPT ![id] = @ + 1]
    /\ UNCHANGED <<calls, started, unhandled, batch, isProcessingAll, hasApiKey,
                   restorationMode, env, nextId>>

\* removePhoto(id): revokes the preview of the photo if it is found, and filters it out.
RemovePhoto(id) ==
    /\ photos' = Without(photos, id)
    /\ revoked' = IF id \in Ids(photos) THEN [revoked EXCEPT ![id] = @ + 1] ELSE revoked
    /\ UNCHANGED <<calls, started, unhandled, batch, isProcessingAll, hasApiKey,
                   restorationMode, env, nextId>>

\* updateAdjustment(id, key, value)
UpdateAdjustment(id, key, value) ==
    /\ photos' = SetAdjustment(photos, id, key, value)
    /\ UNCHANGED <<calls, started, unhandled, batch, isProcessingAll, hasApiKey,
                   restorationMode, env, nextId, revoked>>

\* setRestorationMode(m), the mode selector
SetRestorationMode(m) ==
    /\ restorationMode' = m
    /\ UNCHANGED <<photos, calls, started, unhandled, batch, isProcessingAll, hasApiKey,
                   env, nextId, revoked>>

\* window.aistudio.hasSelectedApiKey(): the key selected through the host is the one
\* the platform provides as process.env.API_KEY.
HasSelectedApiKey(e) == e.API_KEY # ""

\* The flag value for a boolean.
Flag(b) == IF b THEN "true" ELSE "false"

\* checkKey, the effect of the first render: setHasApiKey(await hasSelectedApiKey()).
\* It is taken while the flag still has its initial value.
CheckKey ==
    /\ hasApiKey = "null"
    /\ hasApiKey' = Flag(HasSelectedApiKey(env))
    /\ UNCHANGED <<photos, calls, started, unhandled, batch, isProcessingAll,
                   restorationMode, env, nextId, revoked>>

\* handleSelectKey, the button of the key banner (rendered when restorationMode is
\* 'ultra' and hasApiKey is false): await openSelectKey(), in which the user selects
\* a key (chosen) or closes the dialog without one, then setHasApiKey(true).
HandleSelectKey(chosen) ==
    /\ restorationMode = "ultra"
    /\ hasApiKey = "false"
    /\ env' = IF chosen THEN [env EXCEPT !.API_KEY = "user-key"] ELSE env
    /\ hasApiKey' = "true"
    /\ UNCHANGED <<photos, calls, started, unhandled, batch, isProcessingAll,
                   restorationMode, nextId, revoked>>

-----------------------------------------------------------------------------
(* Specifications.                                                         *)

\* The events of the program, the remote call settling with one of outcomes.  At most
\* maxPhotos photos are ever added and maxBatches runs of processAll started; a click
\* that starts processPhoto or processAll is taken while fewer than maxCalls
\* invocations were started (a run that was started goes through all its items).
NextFor(maxPhotos, maxCalls, maxBatches, outcomes) ==
    \/ \E n \in 1..maxPhotos : nextId + n - 1 <= maxPhotos /\ OnDrop(n)
    \/ \E i \in DOMAIN photos : started < maxCalls /\ ProcessPhotoClick(i)
    \/ /\ batch.run < maxBatches
       /\ started + Len(Eligible(photos)) <= maxCalls
       /\ ProcessAllClick
    \/ \E k \in DOMAIN calls : EncodingFails(k)
    \/ \E k \in DOMAIN calls : EncodingSucceeds(k)
    \/ \E k \in DOMAIN calls : \E o \in outcomes : RemoteSettles(k, o)
    \/ \E k \in DOMAIN calls : TimerFires(k)
    \/ \E id \in 1..(nextId - 1) : RemovePhoto(id)

\* Orchestration: the remote call returns an image or fails.
OrchOutcomes ==
    { Response(TRUE, "STOP", <<ImagePart("image/png", "AAAA")>>), Thrown(<<"internal">>) }

\* Orchestration: no key at all, or the platform key alone.
OrchEnvs == { e \in Envs : e.API_KEY = "" }

Init == InitWith(OrchEnvs)

Next == NextFor(MaxPhotos, MaxCalls, MaxBatches, OrchOutcomes)

Spec == Init /\ [][Next]_vars

\* Restoration end to end: every outcome of the remote call, every environment.
InitRestore == InitWith(Envs)

NextRestore == NextFor(RestorePhotos, RestoreCalls, MaxBatches, RemoteOutcomes)

SpecRestore == InitRestore /\ [][NextRestore]_vars

\* Restoration while the user moves the mode selector: the platform key is
\* configured and the remote call returns one of two different images.
ModeOutcomes ==
    { Response(TRUE, "STOP", <<ImagePart("image/png", "AAAA")>>),
      Response(TRUE, "STOP", <<ImagePart("image/png", "BBBB")>>) }

InitMode == InitWith({ e \in Envs : e.API_KEY = "" /\ e.GEMINI_API_KEY # "" })

NextMode ==
    \/ NextFor(ModePhotos, ModeCalls, MaxBatches, ModeOutcomes)
    \/ \E m \in Modes : SetRestorationMode(m)

SpecMode == InitMode /\ [][NextMode]_vars

\* The adjustment panel: the four keys of PhotoItem.adjustments, and values that
\* updateAdjustment may be called with (inside and outside the ranges of the sliders).
AdjustKeys == {"brightness", "contrast", "saturation", "sharpness"}

AdjustValues == {0, 100, 200, 250}

NextAdjust ==
    \/ \E n \in 1..AdjustPhotos : nextId + n - 1 <= AdjustPhotos /\ OnDrop(n)
    \/ \E i \in DOMAIN photos : \E key \in AdjustKeys : \E value \in AdjustValues :
          UpdateAdjustment(photos[i].id, key, value)
    \/ \E id \in 1..(nextId - 1) : RemovePhoto(id)

SpecAdjust == Init /\ [][NextAdjust]_vars

\* The adjustment panel used while photos are restored: two of the sliders, moved
\* to one value.
PanelKeys == {"saturation", "sharpness"}

PanelValues == {250}

NextPanel ==
    \/ NextFor(PanelPhotos, PanelCalls, MaxBatches, OrchOutcomes)
    \/ \E i \in DOMAIN photos : \E key \in PanelKeys : \E value \in PanelValues :
          UpdateAdjustment(photos[i].id, key, value)

SpecPanel == InitMode /\ [][NextPanel]_vars

\* The credential flag: the remote call returns an image or reports that the key
\* was not found; the user moves the mode selector and uses the key banner.
KeyOutcomes ==
    { Response(TRUE, "STOP", <<ImagePart("image/png", "AAAA")>>),
      Thrown(<<"Requested entity was not found">>) }

NextKey ==
    \/ NextFor(RestorePhotos, RestoreCalls, MaxBatches, KeyOutcomes)
    \/ \E m \in Modes : SetRestorationMode(m)
    \/ CheckKey
    \/ \E chosen \in BOOLEAN : HandleSelectKey(chosen)

SpecKey == InitRestore /\ [][NextKey]_vars

\* Progress: FileReader always ends with onload or onerror, and a timer that was set
\* always fires; nothing is assumed of the remote call.
NextLive == NextFor(LivePhotos, LiveCalls, LiveBatches, OrchOutcomes)

Fairness ==
    /\ WF_vars(\E k \in DOMAIN calls : EncodingFails(k) \/ EncodingSucceeds(k))
    /\ WF_vars(\E k \in DOMAIN calls : TimerFires(k))

SpecLive == Init /\ [][NextLive]_vars /\ Fairness

-----------------------------------------------------------------------------
(* Properties.                                                             *)

StatusOf(ph, id) == PhotoOf(ph, id).status

\* The invocations on photo id that have not returned.
LiveOn(cl, id) == { k \in DOMAIN cl : cl[k].id = id /\ cl[k].pc # "done" }

\* The invocations made by the processAll run that is running or ran last.
RunCalls == { k \in DOMAIN calls : calls[k].run > 0 /\ calls[k].run = batch.run }

\* This step starts an invocation of processPhoto on photo id.
StartsOn(id) == started' = started + 1 /\ calls'[Len(calls')].id = id

\* This step is the return of processAll.
Returns == isProcessingAll /\ ~isProcessingAll'

\* This step is the timeout of invocation k: it returns with its remote call unsettled.
TimesOut(k) ==
    /\ calls[k].pc # "done"
    /\ Len(calls') >= k
    /\ \A j \in 1..(k - 1) : calls'[j] = calls[j]
    /\ calls'[k] = [calls[k] EXCEPT !.pc = "done", !.timer = "fired", !.raced = TRUE,
                                    !.remote = "inflight"]

\* This step is the settlement of the remote call of invocation k after its timeout.
SettlesLate(k) ==
    /\ calls[k].pc = "done"
    /\ calls[k].remote = "inflight"
    /\ calls' = Drop(calls, k)

\* C1: in every reachable state every photo has a result exactly when it is
\* completed and an error message exactly when it is in error.
C1_FieldsMatchStatus ==
    \A i \in DOMAIN photos :
        /\ photos[i].result # Absent <=> photos[i].status = "completed"
        /\ photos[i].error # Absent <=> photos[i].status = "error"

\* C2: no photo ever has result and error both populated.
C2_NeverResultAndError ==
    \A i \in DOMAIN photos : ~(photos[i].result # Absent /\ photos[i].error # Absent)

\* C3: a start request on a photo whose current status in the collection is
\* processing or completed is a no-op: no step starts an invocation on such a photo.
C3_StartOnBusyIsNoOp ==
    [][\A i \in DOMAIN photos :
          photos[i].status \in {"processing", "completed"} => ~StartsOn(photos[i].id)]_vars

\* C4 as stated: at every moment at most one remote call issued by the run is unsettled.
C4_RunCallsNeverOverlap ==
    Cardinality({ k \in RunCalls : calls[k].remote = "inflight" }) <= 1

\* C4 as amended: at every moment at most one invocation of the run has not returned,
\* so at most one remote call issued by the run is still awaited; a call abandoned
\* by the timeout may stay unsettled while the next items are processed.
C4_OneAwaitedCall ==
    /\ Cardinality({ k \in RunCalls : calls[k].pc # "done" }) <= 1
    /\ Cardinality({ k \in RunCalls : calls[k].pc = "racing" }) <= 1

\* C4 witness: an earlier call of the run was abandoned by the timeout and is still
\* unsettled while the call of the next item is awaited.
C4_Witness ==
    \E k1, k2 \in RunCalls :
        /\ calls[k1].pc = "done" /\ calls[k1].remote = "inflight"
        /\ calls[k2].pc = "racing"

\* C5 as stated: when processAll returns, exactly N remote calls have been issued and
\* every photo of the snapshot has status completed or error.
C5_ReturnsAfterNCalls ==
    [][Returns =>
          /\ batch'.issued = Len(batch.snap)
          /\ \A j \in DOMAIN batch.snap :
                /\ batch.snap[j].id \in Ids(photos')
                /\ StatusOf(photos', batch.snap[j].id) \in {"completed", "error"}]_vars

\* C5 as amended: when processAll returns it has started processPhoto on each of the
\* N snapshot photos; with a key configured it has issued one remote call for each
\* of them whose encoding succeeded, and without a key none; every snapshot photo that
\* is still in the collection and on which no other invocation of processPhoto is in
\* progress has status completed or error.
C5_ReturnAccounting ==
    [][Returns =>
          /\ batch.idx = Len(batch.snap)
          /\ batch'.issued + batch'.failed <= Len(batch.snap)
          /\ ApiKey(env) # "" => batch'.issued + batch'.failed = Len(batch.snap)
          /\ ApiKey(env) = "" => batch'.issued = 0
          /\ \A j \in DOMAIN batch.snap :
                (/\ batch.snap[j].id \in Ids(photos')
                 /\ LiveOn(calls', batch.snap[j].id) = {})
                => StatusOf(photos', batch.snap[j].id) \in {"completed", "error"}]_vars

\* C5 witness: a run over two photos has returned; one encoding failed, one call was issued.
C5_Witness ==
    /\ batch.run = 1
    /\ ~isProcessingAll
    /\ batch.issued = 1
    /\ batch.failed = 1

\* C6: when the deadline of an invocation fires before its remote call settled, the
\* photo goes from processing to error with the timeout message, and the later
\* settlement of that remote call changes no photo.
C6_TimeoutThenDiscarded ==
    [][\A k \in DOMAIN calls :
          /\ (TimesOut(k) /\ calls[k].id \in Ids(photos)) =>
                /\ StatusOf(photos, calls[k].id) = "processing"
                /\ StatusOf(photos', calls[k].id) = "error"
                /\ PhotoOf(photos', calls[k].id).error = MsgTimeout
          /\ SettlesLate(k) => photos' = photos]_vars

\* C7: processPhoto always returns normally with the failure stored: a photo in
\* processing has an invocation in progress, a photo in error has a message, and while
\* processAll runs the invocation on its current item is in progress, whatever
\* happened to the items before it.
C7_FailureNeverEscapes ==
    /\ \A i \in DOMAIN photos :
          /\ photos[i].status = "processing" => LiveOn(calls, photos[i].id) # {}
          /\ photos[i].status = "error" => photos[i].error # Absent
    /\ isProcessingAll =>
          /\ batch.idx \in DOMAIN batch.snap
          /\ \E k \in RunCalls : calls[k].pc # "done" /\ calls[k].id = batch.snap[batch.idx].id

\* C7 witness: the first item of a run failed and the second is being processed.
C7_Witness ==
    /\ isProcessingAll
    /\ batch.idx = 2
    /\ batch.snap[1].id \in Ids(photos)
    /\ StatusOf(photos, batch.snap[1].id) = "error"
    /\ \E k \in RunCalls : calls[k].pc # "done" /\ calls[k].id = batch.snap[2].id

\* C8: no rejection is ever left without a handler.
C8_NoUnhandledRejection == ~unhandled

\* C9: the work list of a run is exactly the photos that were pending or in error at
\* the click, in collection order (ids grow along the collection); photos added later
\* do not enter it; the run processes one item at a time, in that order, and every
\* item before the current one has been brought to completed or error.
C9_SnapshotFixedAndOrdered ==
    /\ [](/\ \A j \in DOMAIN batch.snap :
                /\ batch.snap[j].status \in {"pending", "error"}
                /\ \A l \in DOMAIN batch.snap : j < l => batch.snap[j].id < batch.snap[l].id
          /\ \A k \in RunCalls :
                calls[k].pc # "done" =>
                    isProcessingAll /\ calls[k].id = batch.snap[batch.idx].id
          /\ \A j \in DOMAIN batch.snap :
                (/\ j < batch.idx
                 /\ batch.snap[j].id \in Ids(photos)
                 /\ LiveOn(calls, batch.snap[j].id) = {})
                => StatusOf(photos, batch.snap[j].id) \in {"completed", "error"})
    /\ [][/\ (batch'.run # batch.run) =>
                \A i \in DOMAIN photos :
                    photos[i].status \in {"pending", "error"}
                    <=> \E j \in DOMAIN batch'.snap : batch'.snap[j].id = photos[i].id
          /\ (batch'.run = batch.run /\ isProcessingAll') => batch'.snap = batch.snap
          /\ \A id \in Ids(photos') \ Ids(photos) :
                \A j \in DOMAIN batch'.snap : batch'.snap[j].id # id]_vars

\* C9 witness: a photo added while a run is in progress is pending and not in the
\* work list of the run (had it been there at the click, it would be in the list).
C9_Witness ==
    /\ isProcessingAll
    /\ Len(batch.snap) = 1
    /\ \E i \in DOMAIN photos :
          /\ photos[i].id > batch.snap[1].id
          /\ photos[i].status = "pending"

\* The photo that C10 expects after the remote call of an invocation on it settled
\* with response o.
C10_Expected(o, p) ==
    /\ ~o.hasCandidate => p.status = "error" /\ p.error = MsgNoCandidate
    /\ (/\ o.hasCandidate
        /\ o.finishReason \in {"", "STOP"}
        /\ o.parts # <<>>
        /\ \A i \in DOMAIN o.parts : ~o.parts[i].inlineData /\ o.parts[i].text # Absent)
       => p.status = "error" /\ p.error = MsgModelText(o.parts[1].text)
    /\ (/\ o.hasCandidate
        /\ o.finishReason \in {"", "STOP"}
        /\ \E i \in DOMAIN o.parts : o.parts[i].inlineData)
       => /\ p.status = "completed"
          /\ \E i \in DOMAIN o.parts :
                o.parts[i].inlineData /\ p.result = DataUrl(o.parts[i])

\* C10: a response without candidates leaves the photo in error with the
\* empty-response message, a normally finished text-only response in error with the
\* model-returned-text message carrying the text, whatever the text says, and a
\* normally finished response with an image in completed with that image.
C10_ResponseDecidesPhoto ==
    [][\A k \in DOMAIN calls : \A o \in RemoteOutcomes :
          (/\ ~o.threw
           /\ calls[k].pc = "racing"
           /\ calls[k].id \in Ids(photos)
           /\ RemoteSettles(k, o))
          => C10_Expected(o, PhotoOf(photos', calls[k].id))]_vars

\* The quota signals the catch block of processPhoto looks for.
QuotaSignal(m) == Includes(m, "quota") \/ Includes(m, "429") \/ Includes(m, "RESOURCE_EXHAUSTED")

\* What C11 as stated expects of photo p and flag hk after the remote call failed with
\* message m, its cases read in the order in which it gives them.
C11_Stated(m, p, hk) ==
    /\ p.status = "error"
    /\ IF QuotaSignal(m) THEN p.error = MsgQuota
       ELSE IF Includes(m, "Requested entity was not found")
            THEN p.error = MsgKeyInvalid /\ hk = "false"
       ELSE IF Includes(m, "fetch failed") THEN p.error \in {MsgNetwork, MsgNetworkOrKey}
       ELSE p.error = (IF m = Absent THEN MsgDefault ELSE m)

\* What C11 as amended expects: hk0 is the flag before the failure.
C11_Amended(m, p, hk0, hk) ==
    /\ p.status = "error"
    /\ IF Includes(m, "fetch failed") THEN p.error = MsgNetworkOrKey /\ hk = hk0
       ELSE IF Includes(m, "Safety") THEN p.error = MsgSafetyPolicy /\ hk = hk0
       ELSE IF Includes(m, "Requested entity was not found")
            THEN p.error = MsgKeyInvalid /\ hk = "false"
       ELSE IF QuotaSignal(m) THEN p.error = MsgQuota /\ hk = hk0
       ELSE p.error = (IF m = Absent THEN MsgDefault ELSE m) /\ hk = hk0

\* C11 as stated: after a failure of the remote call, a quota signal in its message
\* gives the quota message, "Requested entity was not found" the credential-invalid
\* message and hasApiKey false, "fetch failed" a connectivity message, and any other
\* message is stored as it is (the default message when there is none).
C11_RemoteFailureClassified ==
    [][\A k \in DOMAIN calls : \A o \in RemoteOutcomes :
          (/\ o.threw
           /\ calls[k].pc = "racing"
           /\ calls[k].id \in Ids(photos)
           /\ RemoteSettles(k, o))
          => C11_Stated(o.message, PhotoOf(photos', calls[k].id), hasApiKey')]_vars

\* C11 as amended: after a failure of the remote call the stored error is decided by
\* the first of these that its message contains: "fetch failed" gives the connectivity
\* message of restoreImage; "Safety" the safety-policy message; "Requested entity was
\* not found" the credential-invalid message, with hasApiKey set to false; a quota
\* signal the quota message; any other message is stored as it is (the default message
\* when there is none).  hasApiKey changes in the credential-invalid case only.
C11_RemoteFailureByPrecedence ==
    [][\A k \in DOMAIN calls : \A o \in RemoteOutcomes :
          (/\ o.threw
           /\ calls[k].pc = "racing"
           /\ calls[k].id \in Ids(photos)
           /\ RemoteSettles(k, o))
          => C11_Amended(o.message, PhotoOf(photos', calls[k].id), hasApiKey, hasApiKey')]_vars

\* C11 witness: a failure was classified as a safety-policy rejection, and none as an
\* invalid credential.
C11_Witness ==
    /\ hasApiKey = "null"
    /\ \E i \in DOMAIN photos :
          photos[i].status = "error" /\ photos[i].error = MsgSafetyPolicy

\* C12: a removed photo had its preview revoked exactly once and is absent from then
\* on, a photo in the collection never had it revoked; removal takes a photo of any
\* status out of the collection; the work list of a processAll run holds no photo
\* that was removed before the click.
C12_RemoveReleasesOnce ==
    /\ [](/\ \A id \in 1..(nextId - 1) :
                revoked[id] = (IF id \in Ids(photos) THEN 0 ELSE 1)
          /\ \A i \in DOMAIN photos :
                /\ photos[i].id \notin Ids(Without(photos, photos[i].id))
                /\ Len(Without(photos, photos[i].id)) = Len(photos) - 1)
    /\ [][/\ \A id \in Ids(photos) :
                revoked'[id] # revoked[id] => id \notin Ids(photos')
          /\ (batch'.run # batch.run) =>
                \A j \in DOMAIN batch'.snap : revoked[batch'.snap[j].id] = 0]_vars

\* C12 witness: photo 1 was removed, and a processAll run started afterwards on
\* photo 2 alone is in progress.
C12_Witness ==
    /\ isProcessingAll
    /\ Len(batch.snap) = 1
    /\ batch.snap[1].id = 2
    /\ revoked[1] = 1
    /\ 1 \notin Ids(photos)

\* The ranges of the four sliders of the adjustment panel.
Ranges ==
    [brightness |-> 50..150, contrast |-> 50..150, saturation |-> 0..200, sharpness |-> 0..100]

\* C13: every stored adjustment of every photo is inside its declared range.
C13_AdjustmentsInRange ==
    \A i \in DOMAIN photos : \A key \in AdjustKeys :
        photos[i].adjustments[key] \in Ranges[key]

\* C14: every request is made with the key selected by the user when there is one
\* and with the platform key otherwise; when there is neither, no request is ever
\* made, and the invocation that reaches restoreImage leaves its photo in error.
C14_KeyResolution ==
    /\ [](/\ \A k \in DOMAIN calls :
                calls[k].remote # "none" =>
                    /\ calls[k].key # ""
                    /\ calls[k].key = (IF env.API_KEY # "" THEN env.API_KEY
                                       ELSE env.GEMINI_API_KEY)
          /\ (env.API_KEY = "" /\ env.GEMINI_API_KEY = "") =>
                /\ batch.issued = 0
                /\ \A k \in DOMAIN calls : calls[k].remote = "none")
    /\ [][\A k \in DOMAIN calls :
            (/\ env.API_KEY = "" /\ env.GEMINI_API_KEY = ""
             /\ calls[k].pc = "encoding"
             /\ calls[k].id \in Ids(photos)
             /\ EncodingSucceeds(k))
            => /\ StatusOf(photos', calls[k].id) = "error"
               /\ PhotoOf(photos', calls[k].id).error = MsgNoKey]_vars

\* C14 witness: both keys are configured and a request made with the key of the
\* user is in flight.
C14_Witness ==
    /\ env.GEMINI_API_KEY = "platform-key"
    /\ \E k \in DOMAIN calls : calls[k].remote = "inflight" /\ calls[k].key = "user-key"

\* C15: a restoration that fails because no key is configured, or because the remote
\* call reports "Requested entity was not found", sets hasApiKey to false.
C15_AuthErrorClearsFlag ==
    [][/\ \A k \in DOMAIN calls :
            (/\ ApiKey(env) = ""
             /\ calls[k].pc = "encoding"
             /\ EncodingSucceeds(k))
            => hasApiKey' = "false"
       /\ \A k \in DOMAIN calls :
            (/\ calls[k].pc = "racing"
             /\ RemoteSettles(k, Thrown(<<"Requested entity was not found">>)))
            => hasApiKey' = "false"]_vars

\* The settlement of restoreImage that C16 gives for response o.
C16_Expected(o) ==
    IF ~o.hasCandidate THEN Fail(MsgNoCandidate)
    ELSE IF o.finishReason \notin {"", "STOP"} THEN Fail(MsgStopped(o.finishReason))
    ELSE IF o.parts = <<>> THEN Fail(MsgNoParts)
    ELSE IF \E i \in DOMAIN o.parts : o.parts[i].inlineData
         THEN Ok(DataUrl(o.parts[Least({ i \in DOMAIN o.parts : o.parts[i].inlineData })]))
    ELSE IF \E i \in DOMAIN o.parts : o.parts[i].text # Absent
         THEN Fail(MsgModelText(
                  o.parts[Least({ i \in DOMAIN o.parts : o.parts[i].text # Absent })].text))
    ELSE Fail(MsgNoImage)

\* C16: when the remote call returns response o, the photo becomes what processPhoto
\* stores for the settlement that the precedence gives: no candidate, then a finish
\* reason other than STOP, then no fragments, then the first image fragment, then the
\* first text fragment, then the unknown failure.
C16_ResponsePrecedence ==
    [][\A k \in DOMAIN calls : \A o \in RemoteOutcomes :
          (/\ ~o.threw
           /\ calls[k].pc = "racing"
           /\ calls[k].id \in Ids(photos)
           /\ RemoteSettles(k, o))
          => PhotoOf(photos', calls[k].id)
                = PhotoOf(Settle(photos, calls[k].id, C16_Expected(o)), calls[k].id)]_vars

\* C17: the mode a request is made with is the value of restorationMode at the moment
\* the request is issued.
C17_ModeReadAtIssue ==
    [][\A k \in DOMAIN calls :
          (/\ calls[k].pc = "encoding"
           /\ ApiKey(env) # ""
           /\ EncodingSucceeds(k))
          => calls'[k].mode = restorationMode]_vars

\* The edges of the status machine of a photo.
PermittedEdges ==
    { <<"pending", "processing">>, <<"error", "processing">>,
      <<"processing", "completed">>, <<"processing", "error">> }

\* C18: in every step the status of every photo that stays in the collection is
\* unchanged or changes along a permitted edge.
C18_StatusAlongEdges ==
    [][\A id \in Ids(photos) \cap Ids(photos') :
          \/ StatusOf(photos', id) = StatusOf(photos, id)
          \/ <<StatusOf(photos, id), StatusOf(photos', id)>> \in PermittedEdges]_vars

\* C19: no step replaces the result of a photo that has one by a different value.
C19_ResultImmutable ==
    [][\A id \in Ids(photos) \cap Ids(photos') :
          PhotoOf(photos, id).result # Absent
          => PhotoOf(photos', id).result = PhotoOf(photos, id).result]_vars

\* C20: isProcessingAll is true exactly while a processAll run is in progress, from
\* the click that starts it until the invocation on its last item returned, which
\* leaves that item, when it is still in the collection, completed or in error; a
\* run starts only while the flag is false, so every invocation of a run that has not
\* returned belongs to the one run in progress.
C20_FlagCoversTheRun ==
    /\ [](/\ \A k \in DOMAIN calls :
                (calls[k].run > 0 /\ calls[k].pc # "done") =>
                    isProcessingAll /\ calls[k].run = batch.run
          /\ isProcessingAll =>
                /\ batch.idx \in DOMAIN batch.snap
                /\ \E k \in RunCalls : calls[k].pc # "done")
    /\ [][/\ (batch'.run # batch.run) =>
                /\ ~isProcessingAll
                /\ batch'.run = batch.run + 1
                /\ Eligible(photos) # <<>> => isProcessingAll'
          /\ (isProcessingAll /\ isProcessingAll') => batch'.run = batch.run
          /\ Returns =>
                /\ batch.idx = Len(batch.snap)
                /\ batch.snap[batch.idx].id \in Ids(photos') =>
                      StatusOf(photos', batch.snap[batch.idx].id) \in {"completed", "error"}]_vars

\* C20 witness: a first run returned and a second run is in progress.
C20_Witness ==
    /\ isProcessingAll
    /\ batch.run = 2

\* C21: updateAdjustment(id, key, value) stores value as adjustment key of photo id
\* and changes nothing else: not the other fields or adjustments of that photo, not
\* the other photos, not the collection; every photo has the four adjustments, and
\* a new photo has brightness 100, contrast 100, saturation 100 and sharpness 0.
C21_AdjustmentFrame ==
    /\ [](\A i \in DOMAIN photos : DOMAIN photos[i].adjustments = AdjustKeys)
    /\ [][/\ \A id \in Ids(photos') \ Ids(photos) :
                LET a == PhotoOf(photos', id).adjustments
                IN  /\ a.brightness = 100 /\ a.contrast = 100
                    /\ a.saturation = 100 /\ a.sharpness = 0
          /\ \A i \in DOMAIN photos : \A key \in PanelKeys : \A value \in PanelValues :
                UpdateAdjustment(photos[i].id, key, value) =>
                    /\ Len(photos') = Len(photos)
                    /\ \A j \in DOMAIN photos : j # i => photos'[j] = photos[j]
                    /\ photos'[i].id = photos[i].id
                    /\ photos'[i].status = photos[i].status
                    /\ photos'[i].result = photos[i].result
                    /\ photos'[i].error = photos[i].error
                    /\ photos'[i].adjustments[key] = value
                    /\ \A other \in AdjustKeys \ {key} :
                          photos'[i].adjustments[other] = photos[i].adjustments[other]]_vars

\* C21 witness: a completed photo has both moved sliders at the new value and the
\* other two at their defaults, next to another photo that was not adjusted.
C21_Witness ==
    \E i, j \in DOMAIN photos :
        /\ photos[i].status = "completed"
        /\ photos[i].result # Absent
        /\ photos[i].adjustments =
              [brightness |-> 100, contrast |-> 100, saturation |-> 250, sharpness |-> 250]
        /\ j # i
        /\ photos[j].adjustments = DefaultAdjustments

\* C22: when handleSelectKey has run, hasApiKey is what hasSelectedApiKey reports,
\* so it is true only if a key is selected.
C22_FlagFromRecheck ==
    [][\A chosen \in BOOLEAN :
          HandleSelectKey(chosen) => hasApiKey' = Flag(HasSelectedApiKey(env'))]_vars

\* C23: a photo that is processing is eventually completed, in error or removed, and
\* a processAll run in progress eventually ends with isProcessingAll false, whether
\* or not the remote calls ever settle.
C23_ProcessingEnds ==
    /\ \A id \in 1..LivePhotos :
          (id \in Ids(photos) /\ StatusOf(photos, id) = "processing")
          ~> (id \notin Ids(photos) \/ StatusOf(photos, id) \in {"completed", "error"})
    /\ isProcessingAll ~> ~isProcessingAll

\* C23 witness: a run of two items has ended although the remote call of an item
\* it timed out on is still unsettled.
C23_Witness ==
    /\ batch.run = 1
    /\ ~isProcessingAll
    /\ batch.issued = 2
    /\ \E k \in RunCalls :
          /\ calls[k].remote = "inflight"
          /\ calls[k].id \in Ids(photos)
          /\ PhotoOf(photos, calls[k].id).error = MsgTimeout

\* This step is a step of invocation k of processPhoto: the end of its encoding,
\* the settlement of its remote call, or its timer.
ActsOn(k) ==
    \/ EncodingFails(k)
    \/ EncodingSucceeds(k)
    \/ TimerFires(k)
    \/ \E o \in OrchOutcomes : RemoteSettles(k, o)

\* The ids of the collection, in order.
IdSeq(ph) == [j \in DOMAIN ph |-> ph[j].id]

\* Photo j is the one on which this step starts the next invocation of the run, and
\* all that changes of it is its status, to processing.
StartedByRun(j) ==
    /\ StartsOn(photos[j].id)
    /\ photos'[j] = [photos[j] EXCEPT !.status = "processing"]

\* C24: a removed photo is never in the collection again, and a step of an invocation
\* on a removed photo changes neither the membership and order of the collection nor
\* any photo of it (when processAll awaits the invocation, the same step starts the
\* next item of the run, which alone goes to processing).
C24_RemovedStaysOut ==
    [][/\ \A id \in 1..(nextId - 1) : id \notin Ids(photos) => id \notin Ids(photos')
       /\ \A k \in DOMAIN calls :
            (calls[k].id \notin Ids(photos) /\ ActsOn(k)) =>
                /\ IdSeq(photos') = IdSeq(photos)
                /\ \A j \in DOMAIN photos :
                      photos'[j] = photos[j] \/ (calls[k].run > 0 /\ StartedByRun(j))]_vars

\* C24 witness: the second item of a running processAll was removed, and the request
\* of the invocation on it is in flight.
C24_Witness ==
    /\ isProcessingAll
    /\ batch.idx = 2
    /\ batch.snap[2].id \notin Ids(photos)
    /\ photos # <<>>
    /\ \E k \in RunCalls :
          calls[k].id = batch.snap[2].id /\ calls[k].pc = "racing"

\* C25: a step of an invocation of processPhoto on photo X, and the click that starts
\* one, keeps the membership and order of the collection and changes no photo other
\* than X (when processAll awaits the invocation, the same step starts the next item
\* of the run, which alone goes to processing, as in the click on the batch button).
C25_OnlyThePhotoChanges ==
    [][/\ \A k \in DOMAIN calls :
            ActsOn(k) =>
                /\ IdSeq(photos') = IdSeq(photos)
                /\ \A j \in DOMAIN photos :
                      \/ photos'[j] = photos[j]
                      \/ /\ photos[j].id = calls[k].id
                         /\ photos'[j].adjustments = photos[j].adjustments
                      \/ (calls[k].run > 0 /\ StartedByRun(j))
       /\ \A i \in DOMAIN photos :
            ProcessPhotoClick(i) =>
                /\ IdSeq(photos') = IdSeq(photos)
                /\ \A j \in DOMAIN photos : j # i => photos'[j] = photos[j]
                /\ photos'[i].adjustments = photos[i].adjustments
       /\ ProcessAllClick =>
            /\ IdSeq(photos') = IdSeq(photos)
            /\ \A j \in DOMAIN photos : photos'[j] = photos[j] \/ StartedByRun(j)]_vars

\* C25 witness: photo 1 went to processing and on to completed while photo 2 stayed
\* as it was created.
C25_Witness ==
    /\ Len(photos) = 2
    /\ photos[1].status = "completed"
    /\ photos[1].result # Absent
    /\ photos[2] = NewPhoto(photos[2].id)

=============================================================================
